---- MODULE Spec2Model ----
(***************************************************************************)
(* Filter pipeline of the Lantern HTTP proxy: tokenfilter (shared-secret   *)
(* authentication with Apache mimicry), tunnelportsfilter (CONNECT port    *)
(* admission) and versioncheck (redirect of outdated clients, including    *)
(* the hijack of a CONNECT tunnel).                                        *)
(*                                                                         *)
(* One filter instance is constructed in Init and then serves requests one *)
(* after another.  Go strings that the code parses or takes prefixes of    *)
(* are sequences of one-character strings; strings that are only compared  *)
(* for equality (the auth token) are TLA+ strings.  A nil slice or nil      *)
(* pointer is the empty sequence.                                          *)
(***************************************************************************)
EXTENDS Integers, Sequences, FiniteSets, TLC

VARIABLES
    filter,     \* which filter was constructed: "token", "ports" or "version"
    token,      \* tokenFilter.token
    allowed,    \* tunnelportsfilter: the allowed ports
    vc,         \* the VersionChecker built by New
    pc,         \* position of the request being served
    reqIn,      \* the request as it arrived (never changed afterwards)
    req,        \* the *http.Request the filter holds (its Header is mutable)
    conn,       \* what happened on ctx.DownstreamConn(), in order
    nextSeen,   \* the requests next() was invoked with, as they were then
    resp,       \* the *http.Response the filter returned (<<>> is nil)
    err,        \* the error the filter returned ("" is nil)
    instr,      \* instrument.Mimic observations, in order
    \* the usage reporter (NewMeasuredReporter / reportPeriodically)
    statsCh,          \* the buffered channel of *statsAndContext
    heap,             \* the measured.Stats objects published so far, by address
    aggPc,            \* position of the reportPeriodically goroutine
    tickPending,      \* ticker.C holds a tick
    statsByDeviceID,  \* device id -> address of a measured.Stats
    todo,             \* submit: the devices its range loop has not visited
    durable,          \* Redis: _client:<id> -> bytesIn, bytesOut
    tracker,          \* usage.Set calls per device: the totals reported
    accepted,         \* history: bytes of the samples that entered statsCh
    abandoned,        \* history: bytes dropped with the map after a failed submit
    consumed,         \* history: bytes and count of the samples taken into the map
    dropped,          \* history: samples that found statsCh full
    errLog            \* history: "Unable to submit stats" lines logged

usageVars == <<statsCh, heap, aggPc, tickPending, statsByDeviceID, todo, durable,
               tracker, accepted, abandoned, consumed, dropped, errLog>>

vars == <<filter, token, allowed, vc, pc, reqIn, req, conn, nextSeen, resp, err, instr, usageVars>>

----------------------------------------------------------------------------
(* Bounds of the inputs. *)

\* most values the token header of a request carries
MaxTokens == 2

\* most characters after the colon of a CONNECT target (tunnelportsfilter)
MaxPortLen == 4

\* most samples published to the usage reporter in one run
MaxSamples == 4

\* capacity of statsCh in the model; the code makes it 10000
StatsChCapacity == 2

----------------------------------------------------------------------------
(* Strings *)

Digits == {"0", "1", "2", "3", "4", "5", "6", "7", "8", "9"}

DigitVal(c) ==
    CASE c = "0" -> 0 [] c = "1" -> 1 [] c = "2" -> 2 [] c = "3" -> 3
      [] c = "4" -> 4 [] c = "5" -> 5 [] c = "6" -> 6 [] c = "7" -> 7
      [] c = "8" -> 8 [] c = "9" -> 9

\* strings.HasPrefix
HasPrefix(s, prefix) ==
    /\ Len(s) >= Len(prefix)
    /\ SubSeq(s, 1, Len(prefix)) = prefix

\* strings.IndexByte: position of the first c in s, 0 when there is none
IndexOf(s, c) ==
    IF \E i \in 1..Len(s) : s[i] = c
    THEN CHOOSE i \in 1..Len(s) : s[i] = c /\ \A j \in 1..(i - 1) : s[j] # c
    ELSE 0

\* strings.LastIndexByte: position of the last c in s, 0 when there is none
LastIndexOf(s, c) ==
    IF \E i \in 1..Len(s) : s[i] = c
    THEN CHOOSE i \in 1..Len(s) : s[i] = c /\ \A j \in (i + 1)..Len(s) : s[j] # c
    ELSE 0

AllDigits(s) == \A i \in 1..Len(s) : s[i] \in Digits

\* the value of a decimal numeral (strconv.ParseUint / Atoi on digits)
RECURSIVE ParseNum(_)
ParseNum(s) ==
    IF Len(s) = 0 THEN 0
    ELSE 10 * ParseNum(SubSeq(s, 1, Len(s) - 1)) + DigitVal(s[Len(s)])

\* all sequences over S of length at most n
RECURSIVE SeqsUpTo(_, _)
SeqsUpTo(S, n) ==
    IF n = 0 THEN {<<>>}
    ELSE LET shorter == SeqsUpTo(S, n - 1)
         IN  shorter \cup {Append(s, x) : s \in {t \in shorter : Len(t) = n - 1}, x \in S}

\* net.SplitHostPort on an address that holds no brackets: the port is what
\* follows the last colon; no colon, or a colon in the host, is an error.
SplitHostPort(hostport) ==
    LET i == LastIndexOf(hostport, ":")
        host == SubSeq(hostport, 1, i - 1)
        port == SubSeq(hostport, i + 1, Len(hostport))
    IN  IF i = 0 THEN [ok |-> FALSE, host |-> <<>>, port |-> <<>>]
        ELSE IF IndexOf(host, ":") # 0 THEN [ok |-> FALSE, host |-> <<>>, port |-> <<>>]
        ELSE [ok |-> TRUE, host |-> host, port |-> port]

----------------------------------------------------------------------------
(* Requests, headers and the downstream connection *)

TokenHeader == "X-Lantern-Auth-Token"
VersionHeader == "X-Lantern-Version"

\* req.Header[key]: nil when the key is absent
HeaderValues(h, key) == IF key \in DOMAIN h THEN h[key] ELSE <<>>

\* http.Header.Get: the first value of the key, "" when there is none
HeaderGet(h, key) ==
    IF key \in DOMAIN h /\ Len(h[key]) > 0 THEN h[key][1] ELSE <<>>

\* http.Header.Del
HeaderDel(h, key) == [k \in DOMAIN h \ {key} |-> h[k]]

NoHeader == [k \in {} |-> <<>>]

SiteHost == <<"s", "t">>
UpHost == <<"u", "p">>

NoRequest == [Method |-> "", Host |-> <<>>, Header |-> NoHeader]

\* events on the raw connection
EvMimic == [op |-> "write", what |-> "mimic.Apache", location |-> <<>>, close |-> FALSE]
EvClose == [op |-> "close", what |-> "", location |-> <<>>, close |-> FALSE]

\* what the upstream handler may answer to a request that reached it
UpstreamStatus == {200, 404}

Response(status, location, close) ==
    [StatusCode |-> status, Location |-> location, Close |-> close]

\* a request may arrive when none is being served
Ready == pc = "idle"

----------------------------------------------------------------------------
(* tokenfilter *)

TokenValues == {"", "secret", "wrong"}

TokenRequests ==
    {[Method |-> "GET", Host |-> SiteHost, Header |-> NoHeader]}
    \cup {[Method |-> "GET", Host |-> SiteHost, Header |-> [k \in {TokenHeader} |-> ts]] :
            ts \in SeqsUpTo(TokenValues, MaxTokens)}

\* a filter that never takes the empty secret for "no authentication"
AuthDisabledNever(tok) == FALSE

\* tokenFilter.Apply: authentication is disabled
AuthDisabled(tok) == tok = ""

\* the check without its tokens[0] == "" part
NoTokenProvidedLenOnly(tokens) == Len(tokens) = 0

\* tokenFilter.Apply: "No token provided"
NoTokenProvided(tokens) == Len(tokens) = 0 \/ tokens[1] = ""

\* a comparison of the first candidate alone
TokenMatchedFirstOnly(tokens, tok) == Len(tokens) > 0 /\ tokens[1] = tok

\* tokenFilter.Apply: the loop over the candidates
TokenMatched(tokens, tok) == \E i \in 1..Len(tokens) : tokens[i] = tok

\* a mimicApache that returns without touching the connection
MimicApacheNothing(c) == c

\* mimicApache: mimic.Apache(conn, req); conn.Close(); return nil, ctx, nil
MimicApache(c) == c \o <<EvMimic, EvClose>>

\* tokenFilter.Apply, up to the return of next() when it is invoked
TokenApply(r) ==
    /\ filter = "token"
    /\ Ready
    /\ reqIn' = r
    /\ resp' = <<>>
    /\ err' = ""
    /\ LET tokens == HeaderValues(r.Header, TokenHeader)
       IN  IF AuthDisabled(token)
           THEN /\ req' = r
                /\ nextSeen' = <<r>>
                /\ instr' = <<>>
                /\ conn' = <<>>
                /\ pc' = "inNext"
           ELSE IF NoTokenProvided(tokens)
           THEN /\ req' = r
                /\ nextSeen' = <<>>
                /\ instr' = <<TRUE>>
                /\ conn' = MimicApache(<<>>)
                /\ pc' = "returned"
           ELSE IF TokenMatched(tokens, token)
           THEN /\ req' = [r EXCEPT !.Header = HeaderDel(r.Header, TokenHeader)]
                /\ nextSeen' = <<req'>>
                /\ instr' = <<FALSE>>
                /\ conn' = <<>>
                /\ pc' = "inNext"
           ELSE /\ req' = r
                /\ nextSeen' = <<>>
                /\ instr' = <<TRUE>>
                /\ conn' = MimicApache(<<>>)
                /\ pc' = "returned"
    /\ UNCHANGED <<usageVars, filter, token, allowed, vc>>

\* tokenFilter.Apply: return next(ctx, req) hands on what next returned
TokenNextReturns(status) ==
    /\ filter = "token"
    /\ pc = "inNext"
    /\ resp' = <<Response(status, <<>>, FALSE)>>
    /\ pc' = "returned"
    /\ UNCHANGED <<usageVars, filter, token, allowed, vc, reqIn, req, conn, nextSeen, err, instr>>

----------------------------------------------------------------------------
(* tunnelportsfilter.  The filter itself is not among the sources; only its *)
(* test is.  It is modelled from section 4.1 of the specification.          *)

PortChars == {"0", "1", "3", "4", "8", "a"}

\* the allowed ports of the test, and a second configuration
AllowedPortsConfigs == {{443, 8080}, {80}}

\* CONNECT targets: a host, or a host, a colon and a port segment
PortTargets ==
    {SiteHost} \cup {SiteHost \o <<":">> \o p : p \in SeqsUpTo(PortChars, MaxPortLen)}

PortsRequests ==
    {[Method |-> m, Host |-> t, Header |-> NoHeader] : m \in {"CONNECT", "GET"}, t \in PortTargets}

\* strconv.Atoi on an unsigned numeral
Atoi(s) ==
    IF Len(s) > 0 /\ AllDigits(s)
    THEN [ok |-> TRUE, n |-> ParseNum(s)]
    ELSE [ok |-> FALSE, n |-> 0]

\* a decision that never checks whether the port is a number
PortsDecisionNoAtoiCheck(r, ports) ==
    IF r.Method # "CONNECT" THEN 0
    ELSE LET hp == SplitHostPort(r.Host)
         IN  IF ~hp.ok THEN 400
             ELSE IF Atoi(hp.port).n \notin ports THEN 403
             ELSE 0

\* the status the filter replies with, 0 when the request is passed on
PortsDecision(r, ports) ==
    IF r.Method # "CONNECT" THEN 0
    ELSE LET hp == SplitHostPort(r.Host)
             port == Atoi(hp.port)
         IN  IF ~hp.ok THEN 400
             ELSE IF ~port.ok THEN 400
             ELSE IF port.n \notin ports THEN 403
             ELSE 0

PortsServe(r) ==
    /\ filter = "ports"
    /\ Ready
    /\ reqIn' = r
    /\ req' = r
    /\ err' = ""
    /\ instr' = <<>>
    /\ conn' = <<>>
    /\ LET status == PortsDecision(r, allowed)
       IN  IF status = 0
           THEN /\ nextSeen' = <<r>>
                /\ resp' = <<>>
                /\ pc' = "inNext"
           ELSE /\ nextSeen' = <<>>
                /\ resp' = <<Response(status, <<>>, TRUE)>>
                /\ pc' = "returned"
    /\ UNCHANGED <<usageVars, filter, token, allowed, vc>>

\* the upstream handler answers
PortsNextReturns(status) ==
    /\ filter = "ports"
    /\ pc = "inNext"
    /\ resp' = <<Response(status, <<>>, FALSE)>>
    /\ pc' = "returned"
    /\ UNCHANGED <<usageVars, filter, token, allowed, vc, reqIn, req, conn, nextSeen, err, instr>>

----------------------------------------------------------------------------
(* versioncheck: construction *)

oneMillion == 100 * 100 * 100

\* a semantic version without pre-release or build part, as semver.Make
\* parses it: Major.Minor.Patch, each part a numeral without leading zeros
SemverPart(s) ==
    IF Len(s) > 0 /\ AllDigits(s) /\ ~(Len(s) > 1 /\ s[1] = "0")
    THEN [ok |-> TRUE, n |-> ParseNum(s)]
    ELSE [ok |-> FALSE, n |-> 0]

SemverMake(s) ==
    LET i == IndexOf(s, ".")
        rest == SubSeq(s, i + 1, Len(s))
        j == IndexOf(rest, ".")
        major == SemverPart(SubSeq(s, 1, i - 1))
        minor == SemverPart(SubSeq(rest, 1, j - 1))
        patch == SemverPart(SubSeq(rest, j + 1, Len(rest)))
        bad == [ok |-> FALSE, ver |-> <<0, 0, 0>>]
    IN  IF Len(s) = 0 THEN bad
        ELSE IF i = 0 \/ j = 0 THEN bad
        ELSE IF ~major.ok \/ ~minor.ok \/ ~patch.ok THEN bad
        ELSE [ok |-> TRUE, ver |-> <<major.n, minor.n, patch.n>>]

\* semver.Version.Compare: -1, 0 or 1
SemverCompare(v, w) ==
    IF v[1] # w[1] THEN (IF v[1] < w[1] THEN -1 ELSE 1)
    ELSE IF v[2] # w[2] THEN (IF v[2] < w[2] THEN -1 ELSE 1)
    ELSE IF v[3] # w[3] THEN (IF v[3] < w[3] THEN -1 ELSE 1)
    ELSE 0

\* semver.ParseRange on a single comparator: an operator and a version
ParseRange(s) ==
    LET n == IF Len(s) > 1 /\ s[2] = "=" THEN 2 ELSE 1
    IN  [op |-> SubSeq(s, 1, n), ver |-> SemverMake(SubSeq(s, n + 1, Len(s))).ver]

\* the semver.Range applied to a version
RangeHolds(range, v) ==
    LET c == SemverCompare(v, range.ver)
    IN  CASE range.op = <<"<">> -> c < 0
          [] range.op = <<"<", "=">> -> c <= 0
          [] range.op = <<">">> -> c > 0
          [] range.op = <<">", "=">> -> c >= 0
          [] OTHER -> c = 0

\* url.Parse on scheme://host/path
UrlParse(s) ==
    LET i == IndexOf(s, ":")
        rest == SubSeq(s, i + 3, Len(s))
        j == IndexOf(rest, "/")
    IN  [Scheme |-> SubSeq(s, 1, i - 1),
         Host |-> IF j = 0 THEN rest ELSE SubSeq(rest, 1, j - 1)]

Http == <<"h", "t", "t", "p">>
Https == <<"h", "t", "t", "p", "s">>
Port80 == <<"8", "0">>
Port443 == <<"4", "4", "3">>

\* int(percentage * oneMillion), the percentage being the fraction p[1] / p[2]
Ppm(p) == (p[1] * oneMillion) \div p[2]

New(versionRange, rewriteURL, tunnelPortsToCheck, percentage) ==
    LET u == UrlParse(rewriteURL)
    IN  [versionRange |-> ParseRange(versionRange),
         rewriteURL |-> u,
         rewriteURLString |-> rewriteURL,
         rewriteAddr |-> IF u.Scheme = Https THEN u.Host \o <<":">> \o Port443 ELSE u.Host,
         tunnelPorts |-> IF Len(tunnelPortsToCheck) = 0 THEN <<Port80>> ELSE tunnelPortsToCheck,
         ppm |-> Ppm(percentage)]

\* the configurations the filter is constructed with
VersionRanges == {<<"<", "2", ".", "0", ".", "0">>, <<">", "=", "2", ".", "0", ".", "0">>}

RewriteURLs ==
    {Http \o <<":", "/", "/">> \o UpHost \o <<"/">>,
     Https \o <<":", "/", "/">> \o UpHost \o <<"/">>,
     Http \o <<":", "/", "/">> \o UpHost \o <<":">> \o Port80 \o <<"/">>}

TunnelPortsConfigs == {<<>>, <<Port443, Port80>>}

Percentages == {<<0, 1>>, <<1, 2>>, <<1, 1>>}

----------------------------------------------------------------------------
(* versioncheck: requests *)

TextHtml == <<"t", "e", "x", "t", "/", "h", "t", "m", "l">>
MozillaSlash == <<"M", "o", "z", "i", "l", "l", "a", "/">>

\* values of the X-Lantern-Version header; <<>> stands for no header
VersionValues ==
    {<<>>,
     <<"1", ".", "9", ".", "0">>,
     <<"2", ".", "0", ".", "0">>,
     <<"1", "0", ".", "0", ".", "0">>,
     <<"0", "3", ".", "0", ".", "0">>,
     <<"2", ".", "0">>}

AcceptValues == {<<>>, TextHtml \o <<",", "*">>, SubSeq(TextHtml, 1, 8)}

UserAgentValues == {<<>>, MozillaSlash \o <<"5">>, <<"c", "u", "r", "l">>}

VersionHosts ==
    {SiteHost, UpHost,
     SiteHost \o <<":">> \o Port80, UpHost \o <<":">> \o Port80,
     SiteHost \o <<":">> \o Port443, SiteHost \o <<":">>}

\* a header map holding the keys whose value is not <<>>
HeaderOf(version, accept, agent) ==
    LET all == [k \in {VersionHeader, "Accept", "User-Agent"} |->
                  IF k = VersionHeader THEN version
                  ELSE IF k = "Accept" THEN accept ELSE agent]
    IN  [k \in {x \in DOMAIN all : all[x] # <<>>} |-> <<all[k]>>]

VersionRequests ==
    {[Method |-> m, Host |-> h, Header |-> HeaderOf(v, a, u)] :
        m \in {"CONNECT", "GET", "POST"}, h \in VersionHosts,
        v \in VersionValues, a \in AcceptValues, u \in UserAgentValues}

\* the values random.Intn(oneMillion) is checked with: both ends of its
\* range and both sides of the threshold
Draws(c) == {0, c.ppm - 1, c.ppm, oneMillion - 1} \cap (0..(oneMillion - 1))

----------------------------------------------------------------------------
(* versioncheck: the filter *)

Ev200 == [op |-> "write", what |-> "200 OK", location |-> <<>>, close |-> FALSE]
EvReadRequest == [op |-> "read", what |-> "request", location |-> <<>>, close |-> FALSE]
EvDrainBody == [op |-> "read", what |-> "body", location |-> <<>>, close |-> FALSE]

\* matchVersion taking the range for the versions that are up to date
MatchVersionAcceptance(c, r, draw) ==
    IF r.Host = c.rewriteURL.Host THEN FALSE
    ELSE LET v == SemverMake(HeaderGet(r.Header, VersionHeader))
         IN  IF v.ok /\ RangeHolds(c.versionRange, v.ver) THEN FALSE
             ELSE IF draw >= c.ppm THEN FALSE
             ELSE TRUE

\* matchVersion with the sampling comparison off by one: > for >=
MatchVersionStrictDraw(c, r, draw) ==
    IF r.Host = c.rewriteURL.Host THEN FALSE
    ELSE LET v == SemverMake(HeaderGet(r.Header, VersionHeader))
         IN  IF v.ok /\ ~RangeHolds(c.versionRange, v.ver) THEN FALSE
             ELSE IF draw > c.ppm THEN FALSE
             ELSE TRUE

\* matchVersion; draw is the value of random.Intn(oneMillion)
MatchVersion(c, r, draw) ==
    IF r.Host = c.rewriteURL.Host THEN FALSE
    ELSE LET v == SemverMake(HeaderGet(r.Header, VersionHeader))
         IN  IF v.ok /\ ~RangeHolds(c.versionRange, v.ver) THEN FALSE
             ELSE IF draw >= c.ppm THEN FALSE
             ELSE TRUE

\* shouldRedirect without its User-Agent test
ShouldRedirectNoAgent(c, r, draw) ==
    IF ~HasPrefix(HeaderGet(r.Header, "Accept"), TextHtml) THEN FALSE
    ELSE MatchVersion(c, r, draw)

\* shouldRedirect
ShouldRedirect(c, r, draw) ==
    IF ~HasPrefix(HeaderGet(r.Header, "Accept"), TextHtml) THEN FALSE
    ELSE IF ~HasPrefix(HeaderGet(r.Header, "User-Agent"), MozillaSlash) THEN FALSE
    ELSE MatchVersion(c, r, draw)

\* shouldRedirectOnConnect comparing with the first port to check alone
ShouldRedirectOnConnectFirstPort(c, r, draw) ==
    IF ~MatchVersion(c, r, draw) THEN FALSE
    ELSE LET hp == SplitHostPort(r.Host)
         IN  IF ~hp.ok THEN FALSE
             ELSE hp.port = c.tunnelPorts[1]

\* shouldRedirectOnConnect
ShouldRedirectOnConnect(c, r, draw) ==
    IF ~MatchVersion(c, r, draw) THEN FALSE
    ELSE LET hp == SplitHostPort(r.Host)
         IN  IF ~hp.ok THEN FALSE
             ELSE \E i \in 1..Len(c.tunnelPorts) : hp.port = c.tunnelPorts[i]

\* redirect: the 302 Found the filter returns
Redirect(c) == Response(302, c.rewriteURLString, TRUE)

\* the deferred req.Header.Del(common.VersionHeader) of Apply
DeferredDel(r) == [r EXCEPT !.Header = HeaderDel(r.Header, VersionHeader)]

\* the tunnelled request read, its body left unread
ConsumeTunneledNoDrain(c) == Append(c, EvReadRequest)

\* redirectOnConnect: the first in-tunnel request was read, its body is
\* drained and closed
ConsumeTunneled(c) == c \o <<EvReadRequest, EvDrainBody>>

\* Apply, up to its first call that leaves the filter: next(), or the write
\* of the 200 OK in redirectOnConnect; the GET redirect returns at once
VersionApply(r, draw) ==
    /\ filter = "version"
    /\ Ready
    /\ reqIn' = r
    /\ err' = ""
    /\ instr' = <<>>
    /\ conn' = <<>>
    /\ IF r.Method = "CONNECT" /\ ShouldRedirectOnConnect(vc, r, draw)
       THEN /\ req' = r
            /\ nextSeen' = <<>>
            /\ resp' = <<>>
            /\ pc' = "write200"
       ELSE IF r.Method = "GET" /\ ShouldRedirect(vc, r, draw)
       THEN /\ req' = DeferredDel(r)
            /\ nextSeen' = <<>>
            /\ resp' = <<Redirect(vc)>>
            /\ pc' = "returned"
       ELSE /\ req' = r
            /\ nextSeen' = <<r>>
            /\ resp' = <<>>
            /\ pc' = "inNext"
    /\ UNCHANGED <<usageVars, filter, token, allowed, vc>>

\* Apply: next() returns, Apply returns its result and the deferred Del runs
VersionNextReturns(status) ==
    /\ filter = "version"
    /\ pc = "inNext"
    /\ resp' = <<Response(status, <<>>, FALSE)>>
    /\ req' = DeferredDel(req)
    /\ pc' = "returned"
    /\ UNCHANGED <<usageVars, filter, token, allowed, vc, reqIn, conn, nextSeen, err, instr>>

\* redirectOnConnect going on to read the tunnel whether or not the write
\* of the 200 OK succeeded
VersionWrite200Ignored(ok) ==
    /\ filter = "version"
    /\ pc = "write200"
    /\ conn' = IF ok THEN Append(conn, Ev200) ELSE conn
    /\ err' = IF ok THEN err ELSE "write failed"
    /\ pc' = "readRequest"
    /\ UNCHANGED <<usageVars, filter, token, allowed, vc, reqIn, req, nextSeen, resp, instr>>

\* redirectOnConnect: resp.Write(conn) of the 200 OK, which may fail
VersionWrite200(ok) ==
    /\ filter = "version"
    /\ pc = "write200"
    /\ IF ok
       THEN /\ conn' = Append(conn, Ev200)
            /\ pc' = "readRequest"
            /\ UNCHANGED <<req, err>>
       ELSE /\ err' = "write failed"
            /\ req' = DeferredDel(req)
            /\ pc' = "returned"
            /\ UNCHANGED conn
    /\ UNCHANGED <<usageVars, filter, token, allowed, vc, reqIn, nextSeen, resp, instr>>

\* redirectOnConnect: http.ReadRequest on the tunnel.  When it fails it
\* returns a nil request, and req.Body dereferences it: Apply panics, the
\* deferred Del still runs.
VersionReadRequest(ok) ==
    /\ filter = "version"
    /\ pc = "readRequest"
    /\ IF ok
       THEN /\ conn' = ConsumeTunneled(conn)
            /\ resp' = <<Redirect(vc)>>
            /\ pc' = "returned"
       ELSE /\ pc' = "panicked"
            /\ UNCHANGED <<conn, resp>>
    /\ req' = DeferredDel(req)
    /\ UNCHANGED <<usageVars, filter, token, allowed, vc, reqIn, nextSeen, err, instr>>

----------------------------------------------------------------------------
(* The filter chain runtime (a collaborator): it writes the response a      *)
(* filter returned to the connection and closes it when the response says   *)
(* Close; a nil response leaves the connection to the filter.               *)

EvResponse(r) == [op |-> "write", what |-> "response", location |-> r.Location, close |-> r.Close]

RuntimeFinish ==
    /\ pc = "returned"
    /\ pc' = "finished"
    /\ conn' = IF resp = <<>> THEN conn
               ELSE IF resp[1].Close /\ resp[1].StatusCode = 302
               THEN conn \o <<[EvResponse(resp[1]) EXCEPT !.what = "302 Found"], EvClose>>
               ELSE IF resp[1].Close THEN conn \o <<EvResponse(resp[1]), EvClose>>
               ELSE Append(conn, EvResponse(resp[1]))
    /\ UNCHANGED <<usageVars, filter, token, allowed, vc, reqIn, req, nextSeen, resp, err, instr>>

\* the serving of the request is over (its goroutine ended, after the
\* response or after the panic); the filter waits for the next request
ServeDone ==
    /\ pc \in {"finished", "panicked"}
    /\ pc' = "idle"
    /\ reqIn' = NoRequest
    /\ req' = NoRequest
    /\ conn' = <<>>
    /\ nextSeen' = <<>>
    /\ resp' = <<>>
    /\ err' = ""
    /\ instr' = <<>>
    /\ UNCHANGED <<usageVars, filter, token, allowed, vc>>

----------------------------------------------------------------------------
(* The usage reporter: package redis, NewMeasuredReporter.  A published     *)
(* sample is a context (of which only ctx["deviceid"] is read) and a        *)
(* pointer to a measured.Stats; pointers are addresses into heap, so that   *)
(* the sharing of one Stats object between the publisher and the map shows. *)

Devices == {"d1", "d2"}

\* ctx["deviceid"] is nil
NoDevice == ""

Stats(sent, recv) == [SentTotal |-> sent, RecvTotal |-> recv]

NoStats == Stats(0, 0)

\* the calls the publishers make: ctx["deviceid"] and deltaStats
Published == {<<"d1", Stats(1, 2)>>, <<"d1", Stats(0, 1)>>,
              <<"d2", Stats(1, 2)>>, <<NoDevice, Stats(1, 2)>>}

statsAndContext(ctx, stats) == [ctx |-> ctx, stats |-> stats]

NoMap == [d \in {} |-> 0]

NoCount == [SentTotal |-> 0, RecvTotal |-> 0, n |-> 0]

NoCounters == [bytesIn |-> 0, bytesOut |-> 0]

\* multi.Exec: the transaction ran; it failed before anything was applied;
\* or it was applied and its reply was an error
ExecOutcomes == {"ok", "failed", "failedApplied"}

\* the send case of the select is ready only below the capacity
CanSendOffByOne(ch) == Len(ch) <= StatsChCapacity

CanSend(ch) == Len(ch) < StatsChCapacity

\* the function NewMeasuredReporter returns: a send that never waits
Report(deviceid, deltaStats) ==
    /\ Len(heap) < MaxSamples
    /\ heap' = Append(heap, deltaStats)
    /\ LET sac == statsAndContext(deviceid, Len(heap) + 1)
       IN  IF CanSend(statsCh)
           THEN /\ statsCh' = Append(statsCh, sac)
                /\ dropped' = dropped
                /\ accepted' = IF deviceid = NoDevice THEN accepted
                               ELSE [accepted EXCEPT
                                       ![deviceid].SentTotal = @ + deltaStats.SentTotal,
                                       ![deviceid].RecvTotal = @ + deltaStats.RecvTotal]
           ELSE /\ statsCh' = statsCh
                /\ dropped' = dropped + 1
                /\ accepted' = accepted
    /\ UNCHANGED <<aggPc, tickPending, statsByDeviceID, todo, durable, tracker,
                   abandoned, consumed, errLog>>
    /\ UNCHANGED <<filter, token, allowed, vc, pc, reqIn, req, conn, nextSeen, resp, err, instr>>

\* reportPeriodically: the random sleep is over, the ticker is made
AggWake ==
    /\ aggPc = "sleep"
    /\ aggPc' = "select"
    /\ UNCHANGED <<statsCh, heap, tickPending, statsByDeviceID, todo, durable, tracker,
                   accepted, abandoned, consumed, dropped, errLog>>
    /\ UNCHANGED <<filter, token, allowed, vc, pc, reqIn, req, conn, nextSeen, resp, err, instr>>

\* the ticker: ticker.C holds one tick, a tick that finds it full is dropped
TickerFires ==
    /\ aggPc # "sleep"
    /\ ~tickPending
    /\ tickPending' = TRUE
    /\ UNCHANGED <<statsCh, heap, aggPc, statsByDeviceID, todo, durable, tracker,
                   accepted, abandoned, consumed, dropped, errLog>>
    /\ UNCHANGED <<filter, token, allowed, vc, pc, reqIn, req, conn, nextSeen, resp, err, instr>>

AccumulateOverwrite(existing, s) == s

Accumulate(existing, s) ==
    Stats(existing.SentTotal + s.SentTotal, existing.RecvTotal + s.RecvTotal)

\* case sac := <-statsCh
AggReceive ==
    /\ aggPc = "select"
    /\ statsCh # <<>>
    /\ statsCh' = Tail(statsCh)
    /\ LET sac == Head(statsCh)
           deviceID == sac.ctx
       IN  IF deviceID = NoDevice
           THEN UNCHANGED <<heap, statsByDeviceID, consumed>>
           ELSE /\ IF deviceID \notin DOMAIN statsByDeviceID
                   THEN /\ statsByDeviceID' = (deviceID :> sac.stats) @@ statsByDeviceID
                        /\ heap' = heap
                   ELSE /\ statsByDeviceID' = statsByDeviceID
                        /\ heap' = [heap EXCEPT ![statsByDeviceID[deviceID]] =
                                       Accumulate(heap[statsByDeviceID[deviceID]], heap[sac.stats])]
                /\ consumed' = [consumed EXCEPT
                                  ![deviceID].SentTotal = @ + heap[sac.stats].SentTotal,
                                  ![deviceID].RecvTotal = @ + heap[sac.stats].RecvTotal,
                                  ![deviceID].n = @ + 1]
    /\ UNCHANGED <<aggPc, tickPending, todo, durable, tracker, accepted, abandoned,
                   dropped, errLog>>
    /\ UNCHANGED <<filter, token, allowed, vc, pc, reqIn, req, conn, nextSeen, resp, err, instr>>

ResetStatsKeep(m) == m

\* statsByDeviceID = make(map[string]*measured.Stats)
ResetStats(m) == NoMap

\* the deltas of the map that submit left unwritten
Unwritten(left) ==
    [d \in Devices |->
        IF d \in left
        THEN Accumulate(abandoned[d], heap[statsByDeviceID[d]])
        ELSE abandoned[d]]

\* case <-ticker.C, up to the first multi.Exec of submit; with an empty map
\* submit returns nil at once and the map is made anew
AggTick ==
    /\ aggPc = "select"
    /\ tickPending
    /\ tickPending' = FALSE
    /\ IF DOMAIN statsByDeviceID = {}
       THEN /\ statsByDeviceID' = ResetStats(statsByDeviceID)
            /\ consumed' = [d \in Devices |-> NoCount]
            /\ UNCHANGED <<aggPc, todo>>
       ELSE /\ aggPc' = "submit"
            /\ todo' = DOMAIN statsByDeviceID
            /\ UNCHANGED <<statsByDeviceID, consumed>>
    /\ UNCHANGED <<statsCh, heap, durable, tracker, accepted, abandoned, dropped, errLog>>
    /\ UNCHANGED <<filter, token, allowed, vc, pc, reqIn, req, conn, nextSeen, resp, err, instr>>

\* the devices the range loop of submit goes on to after one multi.Exec
LoopGoesOnAfterError(rest, outcome) == rest

LoopGoesOn(rest, outcome) == IF outcome = "ok" THEN rest ELSE {}

HIncrBySwapped(counters, stats) ==
    [bytesIn |-> counters.bytesIn + stats.SentTotal,
     bytesOut |-> counters.bytesOut + stats.RecvTotal]

\* the two HIncrBy of the transaction
HIncrBy(counters, stats) ==
    [bytesIn |-> counters.bytesIn + stats.RecvTotal,
     bytesOut |-> counters.bytesOut + stats.SentTotal]

\* one turn of the range loop of submit, for a device the loop has not
\* visited yet (the order of a map range is not defined), and, when the
\* loop ends with it, the return to reportPeriodically
AggSubmit(deviceID, outcome) ==
    /\ aggPc = "submit"
    /\ deviceID \in todo
    /\ LET stats == heap[statsByDeviceID[deviceID]]
           written == HIncrBy(durable[deviceID], stats)
           rest == LoopGoesOn(todo \ {deviceID}, outcome)
           left == IF outcome = "ok" THEN {}
                   ELSE IF outcome = "failed" THEN todo
                   ELSE todo \ {deviceID}
       IN  /\ durable' = IF outcome = "failed" THEN durable
                         ELSE [durable EXCEPT ![deviceID] = written]
           /\ tracker' = IF outcome = "ok"
                         THEN [tracker EXCEPT ![deviceID] =
                                  Append(@, written.bytesIn + written.bytesOut)]
                         ELSE tracker
           /\ errLog' = IF outcome = "ok" THEN errLog ELSE errLog + 1
           /\ abandoned' = Unwritten(left)
           /\ todo' = rest
           /\ IF rest = {}
              THEN /\ aggPc' = "select"
                   /\ statsByDeviceID' = ResetStats(statsByDeviceID)
                   /\ consumed' = IF statsByDeviceID' = NoMap
                                  THEN [d \in Devices |-> NoCount]
                                  ELSE consumed
              ELSE UNCHANGED <<aggPc, statsByDeviceID, consumed>>
    /\ UNCHANGED <<statsCh, heap, tickPending, accepted, dropped>>
    /\ UNCHANGED <<filter, token, allowed, vc, pc, reqIn, req, conn, nextSeen, resp, err, instr>>

UsageStart ==
    /\ statsCh = <<>>
    /\ heap = <<>>
    /\ aggPc = "sleep"
    /\ tickPending = FALSE
    /\ statsByDeviceID = NoMap
    /\ todo = {}
    /\ durable = [d \in Devices |-> NoCounters]
    /\ tracker = [d \in Devices |-> <<>>]
    /\ accepted = [d \in Devices |-> NoStats]
    /\ abandoned = [d \in Devices |-> NoStats]
    /\ consumed = [d \in Devices |-> NoCount]
    /\ dropped = 0
    /\ errLog = 0

----------------------------------------------------------------------------
(* Specification *)

DefaultChecker == New(<<"<", "2", ".", "0", ".", "0">>, Http \o <<":", "/", "/">> \o UpHost \o <<"/">>, <<>>, <<1, 1>>)

InitRequest ==
    /\ pc = "idle"
    /\ reqIn = NoRequest
    /\ req = NoRequest
    /\ conn = <<>>
    /\ nextSeen = <<>>
    /\ resp = <<>>
    /\ err = ""
    /\ instr = <<>>

Init ==
    /\ InitRequest
    /\ filter \in {"token", "ports", "version"}
    /\ token \in (IF filter = "token" THEN {"", "secret"} ELSE {""})
    /\ allowed \in (IF filter = "ports" THEN AllowedPortsConfigs ELSE {{}})
    /\ vc \in (IF filter = "version"
               THEN {New(vr, u, tp, p) : vr \in VersionRanges, u \in RewriteURLs,
                                         tp \in TunnelPortsConfigs, p \in Percentages}
               ELSE {DefaultChecker})
    /\ UsageStart

\* The guards stand before the quantifiers so that the requests are only
\* enumerated where the action is enabled.
Next ==
    \/ filter = "token" /\ Ready /\ \E r \in TokenRequests : TokenApply(r)
    \/ filter = "token" /\ pc = "inNext" /\ \E s \in UpstreamStatus : TokenNextReturns(s)
    \/ filter = "ports" /\ Ready /\ \E r \in PortsRequests : PortsServe(r)
    \/ filter = "ports" /\ pc = "inNext" /\ \E s \in UpstreamStatus : PortsNextReturns(s)
    \/ filter = "version" /\ Ready /\ \E r \in VersionRequests : \E d \in Draws(vc) : VersionApply(r, d)
    \/ filter = "version" /\ pc = "inNext" /\ \E s \in UpstreamStatus : VersionNextReturns(s)
    \/ \E ok \in BOOLEAN : VersionWrite200(ok)
    \/ \E ok \in BOOLEAN : VersionReadRequest(ok)
    \/ RuntimeFinish
    \/ ServeDone

Spec == Init /\ [][Next]_vars

\* The usage reporter on its own: no request is served meanwhile.
InitUsage ==
    /\ InitRequest
    /\ filter = "usage"
    /\ token = ""
    /\ allowed = {}
    /\ vc = DefaultChecker
    /\ UsageStart

NextUsage ==
    \/ Len(heap) < MaxSamples /\ \E p \in Published : Report(p[1], p[2])
    \/ AggWake
    \/ TickerFires
    \/ AggReceive
    \/ AggTick
    \/ aggPc = "submit" /\ \E deviceID \in todo : \E outcome \in ExecOutcomes : AggSubmit(deviceID, outcome)

SpecUsage == InitUsage /\ [][NextUsage]_vars

----------------------------------------------------------------------------
(* Properties *)

IsPrefix(s, t) == Len(s) <= Len(t) /\ SubSeq(t, 1, Len(s)) = s

Happened(ev) == \E i \in 1..Len(conn) : conn[i] = ev

\* a request is being served, or was served and is still on display
Serving(f) == filter = f /\ pc # "idle"

\* the values of the token header of the request that arrived
TokensIn == HeaderValues(reqIn.Header, TokenHeader)

\* the outcome of the mimicry path of tokenfilter
Mimicked ==
    /\ instr = <<TRUE>>
    /\ conn = <<EvMimic, EvClose>>
    /\ nextSeen = <<>>
    /\ resp = <<>>

\* the request went to the next filter without its token header
PassedWithoutToken ==
    /\ Len(nextSeen) = 1
    /\ TokenHeader \notin DOMAIN nextSeen[1].Header
    /\ ~Happened(EvMimic)

\* C1 as stated: with a non-empty secret, a request whose token header is
\* absent, has no value, has an empty value (anywhere) or has no value equal
\* to the secret is answered by mimicry and never reaches next.
C1_AnyEmptyValueMimicked ==
    (/\ Serving("token")
     /\ token # ""
     /\ \/ TokenHeader \notin DOMAIN reqIn.Header
        \/ Len(TokensIn) = 0
        \/ \E i \in 1..Len(TokensIn) : TokensIn[i] = ""
        \/ \A i \in 1..Len(TokensIn) : TokensIn[i] # token)
    => Mimicked

\* C1 amended: with a non-empty secret, a request whose token header is
\* absent, has no value, has an empty FIRST value or has no value equal to
\* the secret gets a "mimicking" observation, the mimicry response and the
\* close on the raw connection, and next is never invoked.
C1_UnauthenticatedMimicked ==
    (/\ Serving("token")
     /\ token # ""
     /\ \/ TokenHeader \notin DOMAIN reqIn.Header
        \/ Len(TokensIn) = 0
        \/ TokensIn[1] = ""
        \/ \A i \in 1..Len(TokensIn) : TokensIn[i] # token)
    => Mimicked

\* C1 witness: an empty first value followed by the secret itself was
\* answered by mimicry.
C1_Witness ==
    /\ Serving("token")
    /\ pc = "finished"
    /\ token = "secret"
    /\ TokensIn = <<"", "secret">>
    /\ Mimicked

\* C2 as stated: with a non-empty secret, a request with a value equal to
\* the secret at any position reaches next without its token header.
C2_AnyMatchPasses ==
    (/\ Serving("token")
     /\ token # ""
     /\ \E i \in 1..Len(TokensIn) : TokensIn[i] = token)
    => PassedWithoutToken

\* C2 amended: with a non-empty secret, a request whose first token value is
\* not empty and that has a value equal to the secret at any position
\* reaches next, and the token header is absent from what next receives.
C2_MatchAfterNonEmptyFirstPasses ==
    (/\ Serving("token")
     /\ token # ""
     /\ Len(TokensIn) > 0
     /\ TokensIn[1] # ""
     /\ \E i \in 1..Len(TokensIn) : TokensIn[i] = token)
    => PassedWithoutToken

\* C2 witness: the secret in second place, after a wrong value, passed.
C2_Witness ==
    /\ Serving("token")
    /\ pc = "finished"
    /\ token = "secret"
    /\ TokensIn = <<"wrong", "secret">>
    /\ PassedWithoutToken
    /\ instr = <<FALSE>>

\* C3: with the empty secret every request is passed to next as it came; the
\* filter writes no mimicry response and does not close the connection.
C3_EmptySecretPassesAll ==
    (Serving("token") /\ token = "")
    => /\ nextSeen = <<reqIn>>
       /\ ~Happened(EvMimic)
       /\ ~Happened(EvClose)
       /\ instr = <<>>

\* C3 witness: a request with a wrong token went through with the secret
\* empty.
C3_Witness ==
    /\ Serving("token")
    /\ pc = "finished"
    /\ token = ""
    /\ TokensIn = <<"wrong">>
    /\ nextSeen = <<reqIn>>

\* the filter replied with this status and did not pass the request on
Replied(status) ==
    /\ Len(resp) = 1
    /\ resp[1].StatusCode = status
    /\ nextSeen = <<>>

\* the port segment of the CONNECT target that arrived: what follows its
\* colon (<<>> when it has none)
PortSegmentIn ==
    IF \E i \in 1..Len(reqIn.Host) : reqIn.Host[i] = ":"
    THEN SubSeq(reqIn.Host, LastIndexOf(reqIn.Host, ":") + 1, Len(reqIn.Host))
    ELSE <<>>

\* the target that arrived has no colon, an empty port segment or a port
\* segment that is no number
NoParseablePortIn ==
    \/ \A i \in 1..Len(reqIn.Host) : reqIn.Host[i] # ":"
    \/ PortSegmentIn = <<>>
    \/ \E i \in 1..Len(PortSegmentIn) : PortSegmentIn[i] \notin Digits

\* C4: a CONNECT request is decided by its target alone: 400 exactly when
\* the target has no colon, an empty port segment or a non-integer port; 403
\* exactly when the port is a number outside the allowed set; passed on
\* unchanged exactly when the port is a number in the allowed set; the three
\* outcomes exclude each other and one of them always happens.
C4_PortAdmissionOutcomes ==
    (Serving("ports") /\ reqIn.Method = "CONNECT")
    => /\ Replied(400) <=> NoParseablePortIn
       /\ Replied(403) <=> (~NoParseablePortIn /\ ParseNum(PortSegmentIn) \notin allowed)
       /\ nextSeen = <<reqIn>> <=> (~NoParseablePortIn /\ ParseNum(PortSegmentIn) \in allowed)
       /\ Replied(400) \/ Replied(403) \/ nextSeen = <<reqIn>>
       /\ ~(Replied(400) /\ Replied(403))
       /\ nextSeen = <<reqIn>> => (pc = "inNext" \/ resp[1].StatusCode \in UpstreamStatus)

\* C4 witness: with 443 and 8080 allowed, the target host:8081 was answered
\* with 403.
C4_Witness ==
    /\ Serving("ports")
    /\ pc = "finished"
    /\ allowed = {443, 8080}
    /\ reqIn.Method = "CONNECT"
    /\ PortSegmentIn = <<"8", "0", "8", "1">>
    /\ Replied(403)

\* C5 as stated: whatever the path, the request the next filter is invoked
\* with never carries the client-version header.
C5_NextNeverSeesVersionHeader ==
    filter = "version"
    => \A i \in 1..Len(nextSeen) : VersionHeader \notin DOMAIN nextSeen[i].Header

\* the client version of the request that arrived, parsed
VersionIn == SemverMake(HeaderGet(reqIn.Header, VersionHeader))

\* the gate of versioncheck passed: the filter took its redirect path (the
\* Reply of a GET, the hijack of a CONNECT) instead of invoking next
GatePassed == Serving("version") /\ nextSeen = <<>>

\* the gate did not pass: the request went to next as it came, and the
\* filter neither wrote to the connection nor returned a redirect
NotRedirected ==
    /\ nextSeen = <<reqIn>>
    /\ pc \in {"inNext", "returned", "finished"}
    /\ ~Happened(Ev200)
    /\ resp = <<>> \/ resp[1].StatusCode # 302

\* C6 as stated: a request whose client version is valid and inside the
\* configured range is never redirected.
C6_InRangeNeverRedirected ==
    (/\ Serving("version")
     /\ VersionIn.ok
     /\ RangeHolds(vc.versionRange, VersionIn.ver))
    => NotRedirected

\* C6 amended: matchVersion returns false, so the request is never
\* redirected, for every request whose client-version header parses as a
\* valid semantic version that falls OUTSIDE the configured range, whatever
\* the sampling rate and the random draw.
C6_OutOfRangeNeverRedirected ==
    (/\ Serving("version")
     /\ VersionIn.ok
     /\ ~RangeHolds(vc.versionRange, VersionIn.ver))
    => NotRedirected

\* C6 witness: with the range <2.0.0 and the rate at 100%, a CONNECT to
\* port 80 of another host from version 10.0.0 went to next.
C6_Witness ==
    /\ Serving("version")
    /\ pc = "finished"
    /\ vc.ppm = oneMillion
    /\ vc.versionRange.op = <<"<">>
    /\ VersionIn.ok
    /\ VersionIn.ver = <<10, 0, 0>>
    /\ reqIn.Method = "CONNECT"
    /\ reqIn.Host = SiteHost \o <<":">> \o Port80
    /\ NotRedirected

\* the host of a host or host:port string
HostOf(hostport) ==
    IF LastIndexOf(hostport, ":") = 0 THEN hostport
    ELSE SubSeq(hostport, 1, LastIndexOf(hostport, ":") - 1)

\* the method conditions of the redirect: a CONNECT to one of the tunnel
\* ports to check, or a GET of a browser asking for HTML
MethodConditionsIn ==
    \/ /\ reqIn.Method = "CONNECT"
       /\ \E i \in 1..Len(reqIn.Host) : reqIn.Host[i] = ":"
       /\ \E i \in 1..Len(vc.tunnelPorts) : vc.tunnelPorts[i] = PortSegmentIn
    \/ /\ reqIn.Method = "GET"
       /\ HasPrefix(HeaderGet(reqIn.Header, "Accept"), TextHtml)
       /\ HasPrefix(HeaderGet(reqIn.Header, "User-Agent"), MozillaSlash)

\* C7 as stated: at 100% every request whose version is outside the range,
\* missing or unparseable, whose target host is not the rewrite host and
\* which meets the method conditions is redirected.
C7_OutdatedAlwaysRedirected ==
    (/\ Serving("version")
     /\ vc.ppm = oneMillion
     /\ ~VersionIn.ok \/ ~RangeHolds(vc.versionRange, VersionIn.ver)
     /\ HostOf(reqIn.Host) # HostOf(vc.rewriteURL.Host)
     /\ MethodConditionsIn)
    => GatePassed

\* C7 amended: at 100% every request whose client version is INSIDE the
\* configured range, missing or unparseable, whose target host is not the
\* rewrite host and which meets the method conditions passes the gate: the
\* filter takes its redirect path (the 302 reply of a GET, the hijack of a
\* CONNECT) and never invokes next.
C7_InRangeAlwaysRedirected ==
    (/\ Serving("version")
     /\ vc.ppm = oneMillion
     /\ ~VersionIn.ok \/ RangeHolds(vc.versionRange, VersionIn.ver)
     /\ HostOf(reqIn.Host) # HostOf(vc.rewriteURL.Host)
     /\ MethodConditionsIn)
    => GatePassed /\ pc # "inNext"

\* C7 witness: at 100% and with the range <2.0.0, a browser GET from
\* version 1.9.0 to another host was answered with the 302.
C7_Witness ==
    /\ Serving("version")
    /\ pc = "finished"
    /\ vc.ppm = oneMillion
    /\ vc.versionRange.op = <<"<">>
    /\ VersionIn.ok
    /\ VersionIn.ver = <<1, 9, 0>>
    /\ reqIn.Method = "GET"
    /\ reqIn.Host = SiteHost
    /\ MethodConditionsIn
    /\ GatePassed
    /\ resp = <<Response(302, vc.rewriteURLString, TRUE)>>

\* C8: with the threshold at 0 parts per million no request is redirected
\* or hijacked, whatever its method, version, host and draw: each is passed
\* to next.
C8_ZeroRateNeverRedirects ==
    (Serving("version") /\ vc.ppm = 0) => NotRedirected

\* C8 witness: at 0%, a CONNECT to port 80 of another host without a version
\* header went to next.
C8_Witness ==
    /\ Serving("version")
    /\ pc = "finished"
    /\ vc.ppm = 0
    /\ VersionHeader \notin DOMAIN reqIn.Header
    /\ reqIn.Method = "CONNECT"
    /\ reqIn.Host = SiteHost \o <<":">> \o Port80
    /\ NotRedirected

\* C9 as stated: a request, GET or CONNECT, whose target host is the host of
\* the rewrite destination is never redirected or hijacked.
C9_RewriteHostNeverRedirected ==
    (Serving("version") /\ HostOf(reqIn.Host) = HostOf(vc.rewriteURL.Host))
    => NotRedirected

\* the events of a completed CONNECT hijack, in order
HijackEvents ==
    <<Ev200, EvReadRequest, EvDrainBody,
      [op |-> "write", what |-> "302 Found", location |-> vc.rewriteURLString, close |-> TRUE],
      EvClose>>

\* C10: when the CONNECT gate passes, what happens on the connection is
\* always a beginning of: 200 OK written, one in-tunnel request read, its
\* body drained, 302 Found with the rewrite URL and Close sent, connection
\* closed; the 302 exists only after the first three; next is not invoked.
C10_HijackOrder ==
    (Serving("version") /\ reqIn.Method = "CONNECT")
    => IF nextSeen = <<>>
       THEN /\ IsPrefix(conn, HijackEvents)
            /\ pc # "inNext"
            /\ resp # <<>> =>
                 /\ resp = <<Response(302, vc.rewriteURLString, TRUE)>>
                 /\ IsPrefix(<<Ev200, EvReadRequest, EvDrainBody>>, conn)
       ELSE \A i \in 1..Len(conn) : conn[i] \notin {Ev200, EvReadRequest, EvDrainBody}

\* C10 witness: a hijack ran to its end, all five events in order.
C10_Witness ==
    /\ Serving("version")
    /\ pc = "finished"
    /\ reqIn.Method = "CONNECT"
    /\ nextSeen = <<>>
    /\ conn = HijackEvents


\* C11 as stated: once the 200 OK is written and the read of the in-tunnel
\* request is over, whether it succeeded or failed, the 302 redirect has
\* been produced and the serving task has met no unhandled fault.
C11_HijackCompletesAfterReadFailure ==
    (Serving("version") /\ Happened(Ev200) /\ pc # "readRequest")
    => /\ pc \in {"returned", "finished"}
       /\ resp = <<Redirect(vc)>>

\* what a filter itself does on the raw connection (the chain's response
\* writer does the rest)
FilterEvents == {EvMimic, Ev200, EvReadRequest, EvDrainBody}

WroteRaw == \E i \in 1..Len(conn) : conn[i] \in FilterEvents

\* the three decisions of a filter invocation
Continued == Len(nextSeen) = 1 /\ ~WroteRaw
Replied302OrOther == nextSeen = <<>> /\ resp # <<>> /\ ~WroteRaw
Hijacked == nextSeen = <<>> /\ WroteRaw

MatchVersionPossibleIn ==
    /\ reqIn.Host # vc.rewriteURL.Host
    /\ ~VersionIn.ok \/ RangeHolds(vc.versionRange, VersionIn.ver)
    /\ vc.ppm > 0

BrowserHeadersIn ==
    /\ HasPrefix(HeaderGet(reqIn.Header, "Accept"), TextHtml)
    /\ HasPrefix(HeaderGet(reqIn.Header, "User-Agent"), MozillaSlash)

C19_Write200Failure ==
    (Serving("version") /\ err # "")
    => /\ pc \in {"returned", "finished"}
       /\ resp = <<>>
       /\ conn = <<>>
       /\ nextSeen = <<>>
       /\ VersionHeader \notin DOMAIN req.Header
       /\ req = [reqIn EXCEPT !.Header = HeaderDel(reqIn.Header, VersionHeader)]

\* C19 witness: the write failed for a CONNECT that carried the header.
C19_Witness ==
    /\ Serving("version")
    /\ pc = "finished"
    /\ err = "write failed"
    /\ reqIn.Method = "CONNECT"
    /\ VersionHeader \in DOMAIN reqIn.Header
    /\ VersionHeader \notin DOMAIN req.Header

----------------------------------------------------------------------------
(* The usage reporter: properties *)

\* some call of the reporting function can be taken now
ReportEnabled == ENABLED (\E p \in Published : Report(p[1], p[2]))

\* this step is a call of the reporting function
ReportStep == Len(heap') = Len(heap) + 1

\* C14: a publisher is never made to wait, whatever the aggregation task is
\* doing; the queue never holds more than its capacity; a sample that finds
\* the queue full is dropped at once, and a sample that finds room is put at
\* its end.
C14_IngestionNeverBlocks ==
    /\ [](Len(statsCh) <= StatsChCapacity)
    /\ [](Len(heap) < MaxSamples => ReportEnabled)
    /\ [][ReportStep =>
            IF Len(statsCh) = StatsChCapacity
            THEN statsCh' = statsCh /\ dropped' = dropped + 1
            ELSE /\ Len(statsCh') = Len(statsCh) + 1
                 /\ statsCh'[Len(statsCh')].stats = Len(heap')
                 /\ dropped' = dropped]_vars

\* a sample was dropped while a flush was under way and the queue was full
C14_Witness ==
    /\ aggPc = "submit"
    /\ Len(statsCh) = StatsChCapacity
    /\ dropped > 0
    /\ \A i \in 1..Len(statsCh) : statsCh[i].stats < Len(heap)

RECURSIVE QueuedFor(_, _)
\* the deltas of the samples of device d waiting in the channel ch
QueuedFor(d, ch) ==
    IF ch = <<>> THEN NoStats
    ELSE IF Head(ch).ctx = d
         THEN Accumulate(heap[Head(ch).stats], QueuedFor(d, Tail(ch)))
         ELSE QueuedFor(d, Tail(ch))

\* the deltas of device d held in the map and not yet written
PendingFor(d) ==
    IF d \in (IF aggPc = "submit" THEN todo ELSE DOMAIN statsByDeviceID)
    THEN heap[statsByDeviceID[d]]
    ELSE NoStats

\* the durable counters of device d, as sent and received bytes
WrittenFor(d) == Stats(durable[d].bytesOut, durable[d].bytesIn)

InFlightOrWritten(d) ==
    Accumulate(WrittenFor(d), Accumulate(PendingFor(d), QueuedFor(d, statsCh)))

\* C15 as stated: a sample that entered the queue is never lost: the bytes
\* accepted for a device are in the queue, in the map or in its durable
\* counters.
C15_AcceptedNeverLost ==
    \A d \in Devices : accepted[d] = InFlightOrWritten(d)

\* C15, amended: the bytes accepted for a device are in the queue, in the
\* map, in its durable counters, or were in the map when a flush failed;
\* bytes are given up only by a step that logs a failed flush; and while a
\* flush is under way the queue only grows.
C15_AcceptedAccountedFor ==
    /\ [](\A d \in Devices : accepted[d] = Accumulate(InFlightOrWritten(d), abandoned[d]))
    /\ [][abandoned' # abandoned => errLog' = errLog + 1]_vars
    /\ [][aggPc = "submit" => IsPrefix(statsCh, statsCh')]_vars

\* a flush failed and gave up the bytes of one device after it had written
\* another, while a sample waited in the queue
C15_Witness ==
    /\ \E d \in Devices : abandoned[d] # NoStats
    /\ \E d \in Devices : durable[d] # NoCounters /\ abandoned[d] = NoStats
    /\ statsCh # <<>>

\* this step ends a flush attempt: the tick was taken with an empty map, or
\* submit returned
FlushEnds ==
    \/ aggPc = "submit" /\ aggPc' = "select"
    \/ aggPc = "select" /\ tickPending /\ ~tickPending' /\ aggPc' = "select"

\* C16: the map is empty right after every flush attempt, whether every
\* write succeeded or one failed; a call of the reporting function never
\* changes it; and no entry outlives the flush attempt it was in: while the
\* loop selects, every entry holds exactly the samples consumed since the
\* last attempt ended.
C16_EmptyAfterFlush ==
    /\ [][FlushEnds => statsByDeviceID' = NoMap]_vars
    /\ [][ReportStep => statsByDeviceID' = statsByDeviceID]_vars
    /\ [](\A d \in Devices :
            IF d \in DOMAIN statsByDeviceID
            THEN /\ consumed[d].n > 0
                 /\ heap[statsByDeviceID[d]] = Stats(consumed[d].SentTotal, consumed[d].RecvTotal)
            ELSE consumed[d] = NoCount)

\* a flush failed on its first device with another still to come, and the
\* map is empty
C16_Witness ==
    /\ aggPc = "select"
    /\ errLog > 0
    /\ statsByDeviceID = NoMap
    /\ \E d, e \in Devices : d # e /\ abandoned[d] # NoStats /\ abandoned[e] # NoStats

\* the durable counters of device d after the sums of the samples consumed
\* for it since the last flush are added
PlusConsumed(d) ==
    [bytesIn |-> durable[d].bytesIn + consumed[d].RecvTotal,
     bytesOut |-> durable[d].bytesOut + consumed[d].SentTotal]

\* this step takes a sample without a device id from the queue
DiscardStep ==
    /\ statsCh # <<>>
    /\ Head(statsCh).ctx = NoDevice
    /\ statsCh' = Tail(statsCh)

\* C17: a write that succeeds (it is followed by the report to the tracker)
\* adds to the device's bytesIn and bytesOut exactly the sums of the received
\* and sent bytes of the samples consumed for it since the last flush, and
\* reports their new total; the counters of a device change in no other way,
\* so a device without consumed samples gets no increment; a sample without
\* a device id changes neither the map nor any counter.
C17_AdditiveAccumulation ==
    /\ [][\A d \in Devices :
            tracker'[d] # tracker[d]
            => /\ consumed[d].n > 0
               /\ durable'[d] = PlusConsumed(d)
               /\ tracker'[d] = Append(tracker[d], durable'[d].bytesIn + durable'[d].bytesOut)]_vars
    /\ [][\A d \in Devices :
            durable'[d] # durable[d]
            => consumed[d].n > 0 /\ durable'[d] = PlusConsumed(d)]_vars
    /\ [][DiscardStep => UNCHANGED <<statsByDeviceID, heap, durable, tracker>>]_vars

\* two identical samples of d1 were written by one flush that succeeded,
\* and nothing was written for d2
C17_Witness ==
    /\ durable["d1"] = [bytesIn |-> 4, bytesOut |-> 2]
    /\ tracker["d1"] = <<6>>
    /\ durable["d2"] = NoCounters
    /\ errLog = 0

\* this step logs a failed flush
FailStep == errLog' = errLog + 1

LessEq(s, t) == s.SentTotal <= t.SentTotal /\ s.RecvTotal <= t.RecvTotal

\* C18: the step in which a durable write fails ends the pass: the loop
\* visits no further device, nothing is reported to the tracker, the
\* devices written before keep their counters and reports, of the devices
\* not yet written at most the failing one has its counters changed, and
\* the map is made anew, so that no later flush can write what was left;
\* the bytes given up never reach the counters.
C18_FlushEarlyAbort ==
    /\ [][FailStep =>
            /\ aggPc = "submit" /\ aggPc' = "select"
            /\ todo' = {}
            /\ statsByDeviceID' = NoMap
            /\ tracker' = tracker
            /\ \A d \in Devices \ todo : durable'[d] = durable[d]
            /\ Cardinality({d \in todo : durable'[d] # durable[d]}) <= 1]_vars
    /\ [](\A d \in Devices : LessEq(Accumulate(WrittenFor(d), abandoned[d]), accepted[d]))

\* one flush failed on the first device it visited; the other device was in
\* the map and was never written or reported
C18_Witness ==
    /\ errLog = 1
    /\ aggPc = "select"
    /\ \A d \in Devices : /\ abandoned[d] = accepted[d]
                          /\ abandoned[d] # NoStats
                          /\ durable[d] = NoCounters
                          /\ tracker[d] = <<>>

\* C20: a published sample is never modified afterwards: every Stats object
\* handed to the reporting function keeps the byte counts it was published
\* with.
C20_PublishedNeverModified ==
    [][\A a \in 1..Len(heap) : heap'[a] = heap[a]]_vars
====
